---- MODULE Spec2Model ----
(***************************************************************************)
(* Model of the SHT4x driver (src/sht4x.c, src/include/sht4x.h).           *)
(*                                                                         *)
(* One caller runs the public functions of the driver one after another.   *)
(* A call is the sequence i2c_write -> delay_us -> i2c_read -> check_crc   *)
(* -> write outputs; the bus transport (i2c_master_transmit /              *)
(* i2c_master_receive) and the clock (esp_timer_get_time) are the          *)
(* environment: each transfer succeeds or fails, a successful receive      *)
(* delivers any frame, and the clock advances while delay_us spins.        *)
(***************************************************************************)
EXTENDS Integers, Sequences, FiniteSets, TLC

(***************************************************************************)
(* Bounds of the model.                                                    *)
(***************************************************************************)
\* width of the modelled esp_timer counter, in bits (the counter wraps)
ClockBits == 21
\* the counter advances 2^TickBits microseconds between two reads of a
\* spinning loop
TickBits == 10
\* number of call times that lie shortly before the counter wraps
NumWrapStarts == 2
\* number of sample data byte pairs the received frames are built from
NumPairs == 3
\* longest period delay_us is called with on its own, in ticks of the counter
MaxPeriod == 8

(***************************************************************************)
(* Program constants.                                                      *)
(***************************************************************************)
SHT4X_MEASURE_HIGH_PRECISION_TICKS_CMD == 253
SHT4X_MEASURE_MEDIUM_PRECISION_TICKS_CMD == 246
SHT4X_MEASURE_LOWEST_PRECISION_TICKS_CMD == 224
SHT4X_ACTIVATE_HIGHEST_HEATER_POWER_LONG_TICKS_CMD == 57
SHT4X_ACTIVATE_HIGHEST_HEATER_POWER_SHORT_TICKS_CMD == 50
SHT4X_ACTIVATE_MEDIUM_HEATER_POWER_LONG_TICKS_CMD == 47
SHT4X_ACTIVATE_MEDIUM_HEATER_POWER_SHORT_TICKS_CMD == 36
SHT4X_ACTIVATE_LOWEST_HEATER_POWER_LONG_TICKS_CMD == 30
SHT4X_ACTIVATE_LOWEST_HEATER_POWER_SHORT_TICKS_CMD == 21
SHT4X_SERIAL_NUMBER_CMD == 137
SHT4X_SOFT_RESET_CMD == 148
CRC8_POLYNOMIAL == 49
CRC8_INIT == 255
SHT40_I2C_ADDR_44 == 68
SHT40_I2C_ADDR_45 == 69

ESP_OK == "ESP_OK"
ESP_FAIL == "ESP_FAIL"

(***************************************************************************)
(* Bit operations of C on non-negative integers of a given width.          *)
(***************************************************************************)
RECURSIVE BitXor(_, _, _)
BitXor(a, b, width) ==
    IF width = 0 THEN 0
    ELSE (((a % 2) + (b % 2)) % 2) + 2 * BitXor(a \div 2, b \div 2, width - 1)

RECURSIVE BitOr(_, _, _)
BitOr(a, b, width) ==
    IF width = 0 THEN 0
    ELSE (IF a % 2 = 1 \/ b % 2 = 1 THEN 1 ELSE 0)
         + 2 * BitOr(a \div 2, b \div 2, width - 1)

RECURSIVE BitAnd(_, _, _)
BitAnd(a, b, width) ==
    IF width = 0 THEN 0
    ELSE (IF a % 2 = 1 /\ b % 2 = 1 THEN 1 ELSE 0)
         + 2 * BitAnd(a \div 2, b \div 2, width - 1)

RECURSIVE Pow2(_)
Pow2(n) == IF n = 0 THEN 1 ELSE 2 * Pow2(n - 1)

\* conversion of an int to uint8_t / uint16_t
U8(x) == x % 256
U16(x) == x % 65536

(***************************************************************************)
(* Checksum: generate_crc and check_crc.  data is the sequence of bytes    *)
(* the pointer refers to (data[current_byte] of C is data[current_byte+1]).*)
(***************************************************************************)
\* the inner loop: crc_bit = 8 .. 1
RECURSIVE generate_crc_bits(_, _)
generate_crc_bits(crc, crc_bit) ==
    IF crc_bit > 0
    THEN generate_crc_bits(
             IF BitAnd(crc, 128, 8) # 0
             THEN U8(BitXor(crc * 2, CRC8_POLYNOMIAL, 9))
             ELSE U8(crc * 2),
             crc_bit - 1)
    ELSE crc

\* variant: the inner loop makes seven rounds
generate_crc_bits_of_7 == [crc \in 0..255 |-> generate_crc_bits(crc, 7)]

\* the inner loop for every value of crc it can start from, computed once
\* variant: the polynomial is never XORed in, crc <<= 1 in all 8 rounds
generate_crc_bits_of_shift_only == [crc \in 0..255 |-> U8(crc * Pow2(8))]

generate_crc_bits_of == [crc \in 0..255 |-> generate_crc_bits(crc, 8)]

\* crc ^= data[current_byte], for every value of the two bytes, computed once
\* variant: the byte is ORed into crc, crc |= data[current_byte]
generate_crc_or_of ==
    [crc \in 0..255 |-> [byte \in 0..255 |-> BitOr(crc, byte, 8)]]

generate_crc_xor_of ==
    [crc \in 0..255 |-> [byte \in 0..255 |-> BitXor(crc, byte, 8)]]

\* the outer loop: current_byte = 0 .. count - 1
RECURSIVE generate_crc_bytes(_, _, _, _)
generate_crc_bytes(data, count, current_byte, crc) ==
    IF current_byte < count
    THEN generate_crc_bytes(data, count, current_byte + 1,
             generate_crc_bits_of[generate_crc_xor_of[crc][data[current_byte + 1]]])
    ELSE crc

\* variant: the outer loop ends one byte early
generate_crc_skips_last(data, count) ==
    generate_crc_bytes(data, count - 1, 0, CRC8_INIT)

\* variant: the running value starts at zero
generate_crc_init_0(data, count) == generate_crc_bytes(data, count, 0, 0)

generate_crc(data, count) == generate_crc_bytes(data, count, 0, CRC8_INIT)

\* variant: the top bit of the checksum is not compared
check_crc_low_bits(data, count, checksum) ==
    IF generate_crc(data, count) % 128 # checksum % 128 THEN FALSE ELSE TRUE

check_crc(data, count, checksum) ==
    IF generate_crc(data, count) # checksum THEN FALSE ELSE TRUE

(***************************************************************************)
(* Conversions of ticks to physical units, in the arithmetic of C:         *)
(*   (float)(((float)ticks * 175.0) / 65535.0) - 45.0                      *)
(* The product is exact, the quotient is rounded to a float (by way of a   *)
(* double, which for these divisors gives the float nearest the quotient), *)
(* the difference is exact in double and is rounded to the float returned. *)
(* A float is held as an integer number of units of 2^-22, of which every  *)
(* value these functions return is a multiple.                             *)
(***************************************************************************)
\* the float 1.0
FloatOne == Pow2(22)

\* the significand of a float has 24 bits: it lies in FloatMantMin ..
\* FloatMantMax - 1
FloatMantMin == Pow2(23)

FloatMantMax == Pow2(24)

\* the quotient (quo + rem / den) / 2^s as a float: the 24-bit significand
\* mant, rounded to nearest, ties to even, and s with value mant / 2^s
RECURSIVE float_quotient(_, _, _, _)
float_quotient(quo, rem, den, s) ==
    IF quo < FloatMantMin
    THEN float_quotient(2 * quo + (IF 2 * rem >= den THEN 1 ELSE 0),
                        (2 * rem) % den, den, s + 1)
    ELSE [mant |-> IF 2 * rem > den \/ (2 * rem = den /\ quo % 2 = 1)
                   THEN quo + 1
                   ELSE quo,
          s |-> s]

\* (float)(n / den) for integers n >= 0 and den > 0: whole units, and the
\* rest of the value as the fraction fnum / fden of a unit
float_divide(n, den) ==
    IF n = 0
    THEN [units |-> 0, fnum |-> 0, fden |-> 1]
    ELSE LET q == float_quotient(n \div den, n % den, den, 0)
         IN  IF q.s <= 22
             THEN [units |-> q.mant * Pow2(22 - q.s), fnum |-> 0, fden |-> 1]
             ELSE [units |-> q.mant \div Pow2(q.s - 22),
                   fnum |-> q.mant % Pow2(q.s - 22),
                   fden |-> Pow2(q.s - 22)]

\* the distance between two floats next to a magnitude of mag units
RECURSIVE float_ulp(_)
float_ulp(mag) == IF mag < FloatMantMax THEN 1 ELSE 2 * float_ulp(mag \div 2)

\* the magnitude mag + fnum / fden rounded to a float: to nearest, ties to
\* even
float_round(mag, fnum, fden) ==
    LET ulp == float_ulp(mag)
        down == mag - (mag % ulp)
        twice == 2 * ((mag % ulp) * fden + fnum)
    IN  IF twice < ulp * fden THEN down
        ELSE IF twice > ulp * fden THEN down + ulp
        ELSE IF (down \div ulp) % 2 = 0 THEN down
        ELSE down + ulp

\* (float)(x - offset) for a float x of float_divide and an integer offset
float_subtract(x, offset) ==
    LET whole == x.units - offset * FloatOne
    IN  IF whole >= 0 THEN float_round(whole, x.fnum, x.fden)
        ELSE IF x.fnum > 0
        THEN 0 - float_round(0 - whole - 1, x.fden - x.fnum, x.fden)
        ELSE 0 - float_round(0 - whole, 0, 1)

\* variant: the ticks are divided by 65536
convert_ticks_to_celsius_65536(ticks) ==
    float_subtract(float_divide(ticks * 175, 65536), 45)

convert_ticks_to_celsius(ticks) ==
    float_subtract(float_divide(ticks * 175, 65535), 45)

\* variant: the humidity is kept within 0 .. 100
convert_ticks_to_percent_rh_clamped(ticks) ==
    LET rh == float_subtract(float_divide(ticks * 125, 65535), 6)
    IN  IF rh < 0 THEN 0 ELSE IF rh > 100 * FloatOne THEN 100 * FloatOne ELSE rh

convert_ticks_to_percent_rh(ticks) ==
    float_subtract(float_divide(ticks * 125, 65535), 6)

(***************************************************************************)
(* The transport adapters: the int8_t they return for the outcome of       *)
(* i2c_master_transmit / i2c_master_receive (ok = it returned ESP_OK).     *)
(***************************************************************************)
\* variant: i2c_write transmits the data_len bytes it was called with
i2c_master_transmit_size_data_len(data_len) == data_len

\* the bytes i2c_write has transmitted: i2c_master_transmit(i2c_dev,
\* &reg_addr, 1, -1), whatever data_len it was called with
i2c_master_transmit_size(data_len) == 1

\* the bytes i2c_read has received: i2c_master_receive(i2c_dev, reg_data,
\* data_len, -1)
i2c_master_receive_size(data_len) == data_len

\* variant: the outcome of the transmit is dropped
i2c_write_always_0(ok) == 0

i2c_write(ok) == IF ~ok THEN -1 ELSE 0

\* variant: the outcome of the receive is dropped
i2c_read_always_0(ok) == 0

i2c_read(ok) == IF ~ok THEN -1 ELSE 0

(***************************************************************************)
(* The public functions.  A tick-level function, the serial number read    *)
(* and the soft reset are given by the command byte passed to i2c_write,   *)
(* the period passed to delay_us and what is done with the response; a     *)
(* physical-unit function by the tick-level function it calls.             *)
(***************************************************************************)
sht4x_measure_high_precision_ticks ==
    [fn |-> "sht4x_measure_high_precision_ticks", kind |-> "ticks",
     cmd |-> SHT4X_MEASURE_HIGH_PRECISION_TICKS_CMD, period_us |-> 10 * 1000]

sht4x_measure_medium_precision_ticks ==
    [fn |-> "sht4x_measure_medium_precision_ticks", kind |-> "ticks",
     cmd |-> SHT4X_MEASURE_MEDIUM_PRECISION_TICKS_CMD, period_us |-> 5 * 1000]

sht4x_measure_lowest_precision_ticks ==
    [fn |-> "sht4x_measure_lowest_precision_ticks", kind |-> "ticks",
     cmd |-> SHT4X_MEASURE_LOWEST_PRECISION_TICKS_CMD, period_us |-> 2 * 1000]

sht4x_activate_highest_heater_power_long_ticks ==
    [fn |-> "sht4x_activate_highest_heater_power_long_ticks", kind |-> "ticks",
     cmd |-> SHT4X_ACTIVATE_HIGHEST_HEATER_POWER_LONG_TICKS_CMD,
     period_us |-> 1100 * 1000]

sht4x_activate_highest_heater_power_short_ticks ==
    [fn |-> "sht4x_activate_highest_heater_power_short_ticks", kind |-> "ticks",
     cmd |-> SHT4X_ACTIVATE_HIGHEST_HEATER_POWER_SHORT_TICKS_CMD,
     period_us |-> 110 * 1000]

sht4x_activate_medium_heater_power_long_ticks ==
    [fn |-> "sht4x_activate_medium_heater_power_long_ticks", kind |-> "ticks",
     cmd |-> SHT4X_ACTIVATE_MEDIUM_HEATER_POWER_LONG_TICKS_CMD,
     period_us |-> 1100 * 1000]

sht4x_activate_medium_heater_power_short_ticks ==
    [fn |-> "sht4x_activate_medium_heater_power_short_ticks", kind |-> "ticks",
     cmd |-> SHT4X_ACTIVATE_MEDIUM_HEATER_POWER_SHORT_TICKS_CMD,
     period_us |-> 110 * 1000]

sht4x_activate_lowest_heater_power_long_ticks ==
    [fn |-> "sht4x_activate_lowest_heater_power_long_ticks", kind |-> "ticks",
     cmd |-> SHT4X_ACTIVATE_LOWEST_HEATER_POWER_LONG_TICKS_CMD,
     period_us |-> 1100 * 1000]

sht4x_activate_lowest_heater_power_short_ticks ==
    [fn |-> "sht4x_activate_lowest_heater_power_short_ticks", kind |-> "ticks",
     cmd |-> SHT4X_ACTIVATE_LOWEST_HEATER_POWER_SHORT_TICKS_CMD,
     period_us |-> 110 * 1000]

sht4x_get_serial_number ==
    [fn |-> "sht4x_get_serial_number", kind |-> "serial",
     cmd |-> SHT4X_SERIAL_NUMBER_CMD, period_us |-> 10 * 1000]

sht4x_soft_reset ==
    [fn |-> "sht4x_soft_reset", kind |-> "reset",
     cmd |-> SHT4X_SOFT_RESET_CMD, period_us |-> 10 * 1000]

\* sht4x_init puts no command on the bus and waits for nothing
sht4x_init ==
    [fn |-> "sht4x_init", kind |-> "init", cmd |-> 0, period_us |-> 0]

\* delay_us called on its own with a period
delay_us(period_us) ==
    [fn |-> "delay_us", kind |-> "delay", cmd |-> 0, period_us |-> period_us]

\* a physical-unit function: the tick-level function it calls, under its name
Wrapper(name, ticks_fn) ==
    [fn |-> name, kind |-> "physical", cmd |-> ticks_fn.cmd,
     period_us |-> ticks_fn.period_us, calls |-> ticks_fn.fn]

sht4x_measure_high_precision ==
    Wrapper("sht4x_measure_high_precision", sht4x_measure_high_precision_ticks)

sht4x_measure_medium_precision ==
    Wrapper("sht4x_measure_medium_precision", sht4x_measure_medium_precision_ticks)

sht4x_measure_lowest_precision ==
    Wrapper("sht4x_measure_lowest_precision", sht4x_measure_lowest_precision_ticks)

sht4x_activate_highest_heater_power_long ==
    Wrapper("sht4x_activate_highest_heater_power_long",
            sht4x_activate_highest_heater_power_long_ticks)

sht4x_activate_highest_heater_power_short ==
    Wrapper("sht4x_activate_highest_heater_power_short",
            sht4x_activate_highest_heater_power_short_ticks)

sht4x_activate_medium_heater_power_long ==
    Wrapper("sht4x_activate_medium_heater_power_long",
            sht4x_activate_medium_heater_power_long_ticks)

sht4x_activate_medium_heater_power_short ==
    Wrapper("sht4x_activate_medium_heater_power_short",
            sht4x_activate_medium_heater_power_short_ticks)

sht4x_activate_lowest_heater_power_long ==
    Wrapper("sht4x_activate_lowest_heater_power_long",
            sht4x_activate_lowest_heater_power_long_ticks)

sht4x_activate_lowest_heater_power_short ==
    Wrapper("sht4x_activate_lowest_heater_power_short",
            sht4x_activate_lowest_heater_power_short_ticks)

TicksFunctions ==
    { sht4x_measure_high_precision_ticks,
      sht4x_measure_medium_precision_ticks,
      sht4x_measure_lowest_precision_ticks,
      sht4x_activate_highest_heater_power_long_ticks,
      sht4x_activate_highest_heater_power_short_ticks,
      sht4x_activate_medium_heater_power_long_ticks,
      sht4x_activate_medium_heater_power_short_ticks,
      sht4x_activate_lowest_heater_power_long_ticks,
      sht4x_activate_lowest_heater_power_short_ticks }

PhysicalFunctions ==
    { sht4x_measure_high_precision,
      sht4x_measure_medium_precision,
      sht4x_measure_lowest_precision,
      sht4x_activate_highest_heater_power_long,
      sht4x_activate_highest_heater_power_short,
      sht4x_activate_medium_heater_power_long,
      sht4x_activate_medium_heater_power_short,
      sht4x_activate_lowest_heater_power_long,
      sht4x_activate_lowest_heater_power_short }

MeasurementFunctions == TicksFunctions \cup PhysicalFunctions

Functions ==
    MeasurementFunctions \cup {sht4x_get_serial_number, sht4x_soft_reset}

(***************************************************************************)
(* The environment: the frames a receive can deliver, the times a call can *)
(* start at, and what the caller's output variables hold before a call.    *)
(***************************************************************************)
SamplePairs ==
    << <<190, 239>>, <<18, 52>>, <<0, 0>>, <<255, 255>>, <<128, 1>>, <<1, 128>> >>

DataPairs == { SamplePairs[i] : i \in 1..NumPairs }

\* checksum bytes on the wire: the right one for some pair, or zero
ChecksumBytes == { generate_crc(p, 2) : p \in DataPairs } \cup {0}

Frames ==
    { <<p[1], p[2], c, q[1], q[2], d>> :
          p \in DataPairs, c \in ChecksumBytes, q \in DataPairs, d \in ChecksumBytes }

\* a transfer of a frame: what the sensor sent and what the receive delivers
Transfers == { [sent |-> f, received |-> f] : f \in Frames }

ClockModulus == Pow2(ClockBits)

TickUs == Pow2(TickBits)

\* the times a call starts at: zero, and 1, 8, 64, ... ticks before the
\* counter wraps
StartTimes ==
    {0} \cup { ClockModulus - TickUs * Pow2(3 * (k - 1)) : k \in 1..NumWrapStarts }

PriorValues == {0, 21845}

(***************************************************************************)
(* State.                                                                  *)
(***************************************************************************)
VARIABLES
    pc,            \* where the caller is: idle, write, delay, wait_ovf, wait,
                   \* read, wrapper, done
    call,          \* the public function being run (its descriptor)
    now,           \* esp_timer_get_time(), modulo ClockModulus
    m,             \* delay_us: the first reading of the clock
    e,             \* delay_us: the deadline m + period_us
    data_rx,       \* the receive buffer of the running function
    sent,          \* history: the frame the sensor put on the bus
    temp_ticks,    \* *temp_ticks: the caller's variable, or the local of the
    hum_ticks,     \* physical-unit function that calls the tick-level one
    temp,          \* *temp, *hum: the caller's physical values
    hum,
    serial_number, \* *serial_number
    ticks_ret,     \* what the tick-level function returned to a physical one
    ret,           \* what the public function returned to the caller
    prior,         \* history: the caller's output values before the call
    elapsed,       \* history: microseconds since the command was transmitted
                   \* (counted up to ClockModulus, which exceeds every period)
    trace,         \* history: the transfers, delays and checks of this call
    written,       \* history: the output variables assigned by this call
    unit,          \* a private function called on its own: its arguments and
                   \* what it returned
    me,            \* the device handle the caller passes to every function
    previous,      \* history: the call the caller made before this one
    tasks,         \* the callers that share one endpoint without a lock
    bus            \* history: the most recent command on the shared endpoint

vars == <<pc, call, now, m, e, data_rx, sent, temp_ticks, hum_ticks, temp, hum,
          serial_number, ticks_ret, ret, prior, elapsed, trace, written, unit, me, previous, tasks, bus>>

\* an entry of the history: what was done, with what value and length, whether
\* it succeeded, and how long after the command was transmitted
Event(ev, val, len, ok) ==
    [ev |-> ev, val |-> val, len |-> len, ok |-> ok, at |-> elapsed]

NoFrame == <<0, 0, 0, 0, 0, 0>>

\* no private function has been called on its own
NoUnit ==
    [fn |-> "none", data |-> <<0, 0>>, crc |-> 0, accepted |-> {},
     flipped |-> <<>>]

\* the device handle: the transport endpoint and an identifier field
sht4x_t(i2c_dev, id) == [i2c_dev |-> i2c_dev, id |-> id]

\* the handle after sht4x_init added the device to the bus
BoundHandle == sht4x_t(SHT40_I2C_ADDR_44, 0)

\* the caller has made no call before this one
NoPrevious == [fn |-> "none", ret |-> "none"]

\* one caller owns the endpoint
NoTasks == <<>>

\* no command has been put on the shared endpoint
NoBus == [by |-> 0, cmd |-> 0, since |-> 0]

Init ==
    /\ pc = "idle"
    /\ call = sht4x_soft_reset
    /\ now = 0
    /\ m = 0
    /\ e = 0
    /\ data_rx = NoFrame
    /\ sent = NoFrame
    /\ temp_ticks = 0
    /\ hum_ticks = 0
    /\ temp = 0
    /\ hum = 0
    /\ serial_number = 0
    /\ ticks_ret = "none"
    /\ ret = "none"
    /\ prior = 0
    /\ elapsed = 0
    /\ trace = <<>>
    /\ written = {}
    /\ unit = NoUnit
    /\ me = BoundHandle
    /\ previous = NoPrevious
    /\ tasks = NoTasks
    /\ bus = NoBus

(***************************************************************************)
(* The caller invokes a public function.  Its output variables hold any    *)
(* value; a physical-unit function starts with temp_ticks = hum_ticks = 0. *)
(***************************************************************************)
Invoke(functions, times, priors) ==
    /\ pc = "idle"
    /\ \E f \in functions, t \in times, p \in priors :
        /\ pc' = "write"
        /\ call' = f
        /\ now' = t
        /\ m' = 0
        /\ e' = 0
        /\ data_rx' = NoFrame
        /\ sent' = NoFrame
        /\ temp_ticks' = IF f.kind = "physical" THEN 0 ELSE p
        /\ hum_ticks' = IF f.kind = "physical" THEN 0 ELSE p
        /\ temp' = p
        /\ hum' = p
        /\ serial_number' = p
        /\ ticks_ret' = "none"
        /\ ret' = "none"
        /\ prior' = p
        /\ elapsed' = 0
        /\ trace' = <<>>
        /\ written' = {}
        /\ UNCHANGED <<unit, me, previous, tasks, bus>>

(***************************************************************************)
(* A return of the function that talks to the sensor: to the caller, or to *)
(* the physical-unit function that called it.                              *)
(***************************************************************************)
Return(value) ==
    IF call.kind = "physical"
    THEN /\ pc' = "wrapper"
         /\ ticks_ret' = value
         /\ ret' = ret
    ELSE /\ pc' = "done"
         /\ ticks_ret' = ticks_ret
         /\ ret' = value

(***************************************************************************)
(* if (i2c_write(CMD, NULL, 0, me->i2c_dev) < 0) return ESP_FAIL;          *)
(* i2c_write transmits one byte, the command.                              *)
(***************************************************************************)
\* variant: a failed transmit is tried again
I2cWrite_retries ==
    /\ pc = "write"
    /\ \E ok \in BOOLEAN :
        /\ trace' = Append(trace, Event("transmit", call.cmd,
                                         i2c_master_transmit_size(0), ok))
        /\ pc' = IF i2c_write(ok) < 0 THEN "write" ELSE "delay"
        /\ UNCHANGED <<call, now, m, e, data_rx, sent, temp_ticks, hum_ticks,
                       temp, hum, serial_number, ticks_ret, ret, prior, elapsed,
                       written, unit, me, previous, tasks, bus>>

I2cWrite ==
    /\ pc = "write"
    /\ \E ok \in BOOLEAN :
        /\ trace' = Append(trace, Event("transmit", call.cmd,
                                         i2c_master_transmit_size(0), ok))
        /\ IF i2c_write(ok) < 0
           THEN Return(ESP_FAIL)
           ELSE /\ pc' = "delay"
                /\ UNCHANGED <<ticks_ret, ret>>
        /\ UNCHANGED <<call, now, m, e, data_rx, sent, temp_ticks, hum_ticks, temp, hum,
                       serial_number, prior, elapsed, written, unit, me, previous, tasks, bus>>

(***************************************************************************)
(* delay_us(period_us):                                                    *)
(*   m = now; if (period_us) { e = m + period_us;                          *)
(*     if (m > e) while (now > e) NOP();                                   *)
(*     while (now < e) NOP(); }                                            *)
(***************************************************************************)
\* variant: the period is left out of the deadline, e = m
delay_us_deadline_no_period(start, period_us) == start % ClockModulus

\* variant: the call after a failed one does not wait again, a flag kept
\* from the last call stands for the delay
delay_us_deadline_kept_flag(start, period_us) ==
    IF previous.ret = ESP_FAIL
    THEN start % ClockModulus
    ELSE (start + period_us) % ClockModulus

\* e = (m + period_us), in the width of the counter
delay_us_deadline(start, period_us) == (start + period_us) % ClockModulus

\* variant: the deadline is compared without the loop for a wrapped deadline
delay_us_overflow_spins_never(t, deadline) == FALSE

\* the condition of the first loop, entered when m > e
delay_us_overflow_spins(t, deadline) == t > deadline

\* variant: the second loop ends one reading before the deadline
delay_us_spins_stops_early(t, deadline) == t + 1 < deadline

\* the condition of the second loop
delay_us_spins(t, deadline) == t < deadline

\* variant: the soft reset goes on to receive like the others
AfterDelay_receives ==
    /\ pc' = "read"
    /\ UNCHANGED <<ticks_ret, ret>>

\* the statement after delay_us: the soft reset returns, the others receive;
\* delay_us called on its own has returned
AfterDelay ==
    IF call.kind = "reset"
    THEN Return(ESP_OK)
    ELSE /\ pc' = IF call.kind = "delay" THEN "done" ELSE "read"
         /\ UNCHANGED <<ticks_ret, ret>>

DelayStart ==
    /\ pc = "delay"
    /\ m' = now
    /\ trace' = Append(trace, Event("delay_us", call.period_us, 0, TRUE))
    /\ IF call.period_us # 0
       THEN /\ e' = delay_us_deadline(now, call.period_us)
            /\ pc' = IF now > e' THEN "wait_ovf" ELSE "wait"
            /\ UNCHANGED <<ticks_ret, ret>>
       ELSE /\ e' = e
            /\ AfterDelay
    /\ UNCHANGED <<call, now, data_rx, sent, temp_ticks, hum_ticks, temp, hum,
                   serial_number, prior, elapsed, written, unit, me, previous, tasks, bus>>

\* the clock advances between two readings of a spinning loop
Tick(us) ==
    /\ \/ pc = "wait_ovf" /\ delay_us_overflow_spins(now, e)
       \/ pc = "wait" /\ delay_us_spins(now, e)
    /\ now' = (now + us) % ClockModulus
    /\ elapsed' = IF elapsed + us > ClockModulus THEN ClockModulus ELSE elapsed + us
    /\ UNCHANGED <<pc, call, m, e, data_rx, sent, temp_ticks, hum_ticks, temp, hum,
                   serial_number, ticks_ret, ret, prior, trace, written, unit, me, previous, tasks, bus>>

\* the first loop ends
DelayOverflowEnd ==
    /\ pc = "wait_ovf"
    /\ ~delay_us_overflow_spins(now, e)
    /\ pc' = "wait"
    /\ UNCHANGED <<call, now, m, e, data_rx, sent, temp_ticks, hum_ticks, temp, hum,
                   serial_number, ticks_ret, ret, prior, elapsed, trace, written,
                   unit, me, previous, tasks, bus>>

\* variant: the second loop has no exit, while (1)
DelayEnd_spins_on ==
    /\ pc = "wait"
    /\ ~delay_us_spins(now, e)
    /\ UNCHANGED vars

\* the second loop ends and delay_us returns
DelayEnd ==
    /\ pc = "wait"
    /\ ~delay_us_spins(now, e)
    /\ AfterDelay
    /\ UNCHANGED <<call, now, m, e, data_rx, sent, temp_ticks, hum_ticks, temp, hum,
                   serial_number, prior, elapsed, trace, written, unit, me, previous, tasks, bus>>

(***************************************************************************)
(* The response: i2c_read of 6 bytes, the checksum loop over the groups at *)
(* i = 0 and i = 3, and the assignment of the outputs.                     *)
(***************************************************************************)
\* for (i = 0; i < 6; i += 3) if (!check_crc(&data_rx[i], 2, data_rx[i + 2]))
\*     return ESP_FAIL;   -- the groups checked, and whether all of them passed
\* variant: the loop ends after its first round
check_groups_first_only(rx, i) ==
    [ok |-> check_crc(<<rx[i + 1], rx[i + 2]>>, 2, rx[i + 3]), checked |-> <<i>>]

\* variant: the heater functions do not check the frame
check_groups_heater_unchecked(rx, i) ==
    IF call.period_us > 10 * 1000
    THEN [ok |-> TRUE, checked |-> <<>>]
    ELSE IF ~check_crc(<<rx[1], rx[2]>>, 2, rx[3])
    THEN [ok |-> FALSE, checked |-> <<0>>]
    ELSE [ok |-> check_crc(<<rx[4], rx[5]>>, 2, rx[6]), checked |-> <<0, 3>>]

RECURSIVE check_groups(_, _)
check_groups(rx, i) ==
    IF i < 6
    THEN IF ~check_crc(<<rx[i + 1], rx[i + 2]>>, 2, rx[i + 3])
         THEN [ok |-> FALSE, checked |-> <<i>>]
         ELSE LET rest == check_groups(rx, i + 3)
              IN  [ok |-> rest.ok, checked |-> <<i>> \o rest.checked]
    ELSE [ok |-> TRUE, checked |-> <<>>]

\* variant: the two bytes are taken low byte first
ticks_value_low_first(rx, i) == U16(BitOr(rx[i + 2] * 256, rx[i + 1], 16))

\* (uint16_t)((data_rx[i] << 8) | (data_rx[i + 1]))
ticks_value(rx, i) == U16(BitOr(rx[i + 1] * 256, rx[i + 2], 16))

\* variant: the two words are added, (w0 + w1)
serial_number_value_sum(rx) == (rx[1] * 256 + rx[2]) + (rx[4] * 256 + rx[5])

\* (uint32_t)((data_rx[0] << 8) | (data_rx[1]) | (data_rx[3] << 8) | (data_rx[4]))
serial_number_value(rx) ==
    BitOr(BitOr(BitOr(rx[1] * 256, rx[2], 32), rx[4] * 256, 32), rx[5], 32)

CheckEvents(crc) ==
    [k \in 1..Len(crc.checked) |->
        Event("check_crc", crc.checked[k], 2, crc.ok \/ k < Len(crc.checked))]

\* variant: a serial number read keeps the identifier in the handle,
\* me->id = (uint16_t)*serial_number
me_after_stores_id(handle, f, value) ==
    IF f.kind = "serial" THEN [handle EXCEPT !.id = value % 65536] ELSE handle

\* the handle after a function ran: me->i2c_dev is read to address the
\* transfers, and no function assigns a field of *me
me_after(handle, f, value) == handle

Receive(transfers) ==
    /\ pc = "read"
    /\ \E ok \in BOOLEAN, frame \in transfers :
        /\ sent' = frame.sent
        /\ LET rx == IF ok THEN frame.received ELSE NoFrame
               received == Append(trace, Event("receive", 0,
                                               i2c_master_receive_size(6), ok))
               crc == check_groups(rx, 0)
           IN  /\ data_rx' = rx
               /\ IF i2c_read(ok) < 0
                  THEN /\ trace' = received
                       /\ Return(ESP_FAIL)
                       /\ UNCHANGED <<temp_ticks, hum_ticks, serial_number, written>>
                  ELSE /\ trace' = received \o CheckEvents(crc)
                       /\ IF ~crc.ok
                          THEN /\ Return(ESP_FAIL)
                               /\ UNCHANGED <<temp_ticks, hum_ticks, serial_number,
                                              written>>
                          ELSE /\ Return(ESP_OK)
                               /\ IF call.kind = "serial"
                                  THEN /\ serial_number' = serial_number_value(rx)
                                       /\ written' = written \cup {"serial_number"}
                                       /\ UNCHANGED <<temp_ticks, hum_ticks>>
                                  ELSE /\ temp_ticks' = ticks_value(rx, 0)
                                       /\ hum_ticks' = ticks_value(rx, 3)
                                       /\ written' = written
                                              \cup {"temp_ticks", "hum_ticks"}
                                       /\ UNCHANGED serial_number
        /\ me' = me_after(me, call, serial_number')
        /\ UNCHANGED <<call, now, m, e, temp, hum, prior, elapsed, unit, previous,
                       tasks, bus>>

(***************************************************************************)
(* The physical-unit function after the tick-level function returned:      *)
(* if (ret != ESP_OK) return ESP_FAIL; *temp = ...; *hum = ...; return ret *)
(***************************************************************************)
\* variant: the result of the tick-level function is not looked at
WrapperReturn_unchecked ==
    /\ pc = "wrapper"
    /\ pc' = "done"
    /\ temp' = convert_ticks_to_celsius(temp_ticks)
    /\ hum' = convert_ticks_to_percent_rh(hum_ticks)
    /\ written' = written \cup {"temp", "hum"}
    /\ ret' = ESP_OK
    /\ UNCHANGED <<call, now, m, e, data_rx, sent, temp_ticks, hum_ticks,
                   serial_number, ticks_ret, prior, elapsed, trace, unit, me, previous, tasks, bus>>

\* variant: the two conversions are given each other's ticks
WrapperReturn_swapped ==
    /\ pc = "wrapper"
    /\ pc' = "done"
    /\ IF ticks_ret # ESP_OK
       THEN /\ ret' = ESP_FAIL
            /\ UNCHANGED <<temp, hum, written>>
       ELSE /\ temp' = convert_ticks_to_celsius(hum_ticks)
            /\ hum' = convert_ticks_to_percent_rh(temp_ticks)
            /\ written' = written \cup {"temp", "hum"}
            /\ ret' = ticks_ret
    /\ UNCHANGED <<call, now, m, e, data_rx, sent, temp_ticks, hum_ticks,
                   serial_number, ticks_ret, prior, elapsed, trace, unit, me, previous, tasks, bus>>

WrapperReturn ==
    /\ pc = "wrapper"
    /\ pc' = "done"
    /\ IF ticks_ret # ESP_OK
       THEN /\ ret' = ESP_FAIL
            /\ UNCHANGED <<temp, hum, written>>
       ELSE /\ temp' = convert_ticks_to_celsius(temp_ticks)
            /\ hum' = convert_ticks_to_percent_rh(hum_ticks)
            /\ written' = written \cup {"temp", "hum"}
            /\ ret' = ticks_ret
    /\ UNCHANGED <<call, now, m, e, data_rx, sent, temp_ticks, hum_ticks,
                   serial_number, ticks_ret, prior, elapsed, trace, unit, me, previous, tasks, bus>>

(***************************************************************************)
(* The caller has taken the result.  The driver keeps nothing of a call:   *)
(* it has no static data, and the next call sets every variable anew.      *)
(***************************************************************************)
CallerContinues ==
    /\ pc = "done"
    /\ pc' = "idle"
    /\ call' = sht4x_soft_reset
    /\ now' = 0
    /\ m' = 0
    /\ e' = 0
    /\ data_rx' = NoFrame
    /\ sent' = NoFrame
    /\ temp_ticks' = 0
    /\ hum_ticks' = 0
    /\ temp' = 0
    /\ hum' = 0
    /\ serial_number' = 0
    /\ ticks_ret' = "none"
    /\ ret' = "none"
    /\ prior' = 0
    /\ elapsed' = 0
    /\ trace' = <<>>
    /\ written' = {}
    /\ UNCHANGED <<unit, me, previous, tasks, bus>>

Next ==
    \/ Invoke(Functions, StartTimes, PriorValues)
    \/ I2cWrite
    \/ DelayStart
    \/ Tick(TickUs)
    \/ DelayOverflowEnd
    \/ DelayEnd
    \/ Receive(Transfers)
    \/ WrapperReturn
    \/ CallerContinues

Spec == Init /\ [][Next]_vars

(***************************************************************************)
(* The same driver on a bus that corrupts one byte of every frame: the     *)
(* sensor sends a frame with two matching checksums and the receive        *)
(* delivers it with one of its six bytes changed to another value.         *)
(***************************************************************************)
\* the frames the sensor sends: a sample pair, then the next sample pair
ValidFrames ==
    { LET p == SamplePairs[i]
          q == SamplePairs[(i % NumPairs) + 1]
      IN  <<p[1], p[2], generate_crc(p, 2), q[1], q[2], generate_crc(q, 2)>> :
          i \in 1..NumPairs }

CorruptTransfers ==
    { [sent |-> f, received |-> [f EXCEPT ![i] = v]] :
          f \in ValidFrames, i \in 1..6, v \in 0..255 } \ Transfers

\* a call time from which every deadline wraps
WrapStartTimes == { ClockModulus - TickUs }

NextCorrupt ==
    \/ Invoke(MeasurementFunctions, WrapStartTimes, {21845})
    \/ I2cWrite
    \/ DelayStart
    \/ Tick(TickUs)
    \/ DelayOverflowEnd
    \/ DelayEnd
    \/ Receive(CorruptTransfers)
    \/ WrapperReturn
    \/ CallerContinues

SpecCorrupt == Init /\ [][NextCorrupt]_vars

(***************************************************************************)
(* The checksum functions called on their own: generate_crc and check_crc  *)
(* are applied to a payload of two bytes, check_crc with every value of    *)
(* the checksum byte.                                                      *)
(***************************************************************************)
\* the values of a uint8_t
Bytes == 0..255

\* the payloads of two bytes
Payloads == { <<b0, b1>> : b0 \in Bytes, b1 \in Bytes }

\* the payload is chosen, the functions have not been called yet
InitCrc ==
    /\ pc = "idle"
    /\ call = sht4x_soft_reset
    /\ now = 0
    /\ m = 0
    /\ e = 0
    /\ data_rx = NoFrame
    /\ sent = NoFrame
    /\ temp_ticks = 0
    /\ hum_ticks = 0
    /\ temp = 0
    /\ hum = 0
    /\ serial_number = 0
    /\ ticks_ret = "none"
    /\ ret = "none"
    /\ prior = 0
    /\ elapsed = 0
    /\ trace = <<>>
    /\ written = {}
    /\ unit \in { [fn |-> "crc", data |-> d, crc |-> 0, accepted |-> {},
                    flipped |-> <<>>] : d \in Payloads }
    /\ me = BoundHandle
    /\ previous = NoPrevious
    /\ tasks = NoTasks
    /\ bus = NoBus

\* generate_crc(data, 2)
GenerateCrcUnit ==
    /\ unit.fn = "crc"
    /\ unit' = [unit EXCEPT !.fn = "crc_done",
                            !.crc = generate_crc(unit.data, 2)]
    /\ UNCHANGED <<pc, call, now, m, e, data_rx, sent, temp_ticks, hum_ticks, temp,
                   hum, serial_number, ticks_ret, ret, prior, elapsed, trace,
                   written, me, previous, tasks, bus>>

\* check_crc(data, 2, checksum), for every checksum
CheckCrcUnit ==
    /\ unit.fn = "crc_done"
    /\ LET data == unit.data
       IN  unit' = [unit EXCEPT !.fn = "check_done",
                                !.accepted = { checksum \in Bytes :
                                                   check_crc(data, 2, checksum) }]
    /\ UNCHANGED <<pc, call, now, m, e, data_rx, sent, temp_ticks, hum_ticks, temp,
                   hum, serial_number, ticks_ret, ret, prior, elapsed, trace,
                   written, me, previous, tasks, bus>>

\* the payload with one of its 16 bits inverted: bits 0..7 are in data[0],
\* bits 8..15 in data[1]
FlipBit(data, bit) ==
    IF bit < 8
    THEN <<BitXor(data[1], Pow2(bit), 8), data[2]>>
    ELSE <<data[1], BitXor(data[2], Pow2(bit - 8), 8)>>

\* generate_crc(data, 2) again, on each single-bit flip of the payload
FlipCrcUnit ==
    /\ unit.fn = "crc_done"
    /\ LET data == unit.data
       IN  unit' = [unit EXCEPT !.fn = "flip_done",
                                !.flipped = [bit \in 1..16 |->
                                    generate_crc(FlipBit(data, bit - 1), 2)]]
    /\ UNCHANGED <<pc, call, now, m, e, data_rx, sent, temp_ticks, hum_ticks, temp,
                   hum, serial_number, ticks_ret, ret, prior, elapsed, trace,
                   written, me, previous, tasks, bus>>

NextCrc ==
    \/ GenerateCrcUnit
    \/ CheckCrcUnit
    \/ FlipCrcUnit

SpecCrc == InitCrc /\ [][NextCrc]_vars

(***************************************************************************)
(* delay_us on a clock that is read at every tick: the counter advances by *)
(* one between two readings of a spinning loop.  delay_us is called on its *)
(* own with every period up to MaxPeriod, from zero and from every reading *)
(* up to MaxPeriod + 1 ticks before the counter wraps, and by the          *)
(* functions with the shortest periods.  The clock keeps advancing, the    *)
(* loops keep running and the transport calls return.                      *)
(***************************************************************************)
DelayPeriods == 0..MaxPeriod

DelayStartTimes ==
    {0} \cup { ClockModulus - k : k \in 1..(MaxPeriod + 1) }

\* the functions that wait the shortest
ShortFunctions ==
    { sht4x_measure_lowest_precision_ticks, sht4x_measure_lowest_precision }

\* call times from which the deadline of such a function does not wrap, is
\* the last reading before the wrap, is zero, or is past the wrap
ShortStartTimes ==
    {0, ClockModulus - 1}
        \cup { ClockModulus - f.period_us - 1 : f \in ShortFunctions }
        \cup { ClockModulus - f.period_us : f \in ShortFunctions }

InvokeDelay(periods, times) ==
    /\ pc = "idle"
    /\ \E period_us \in periods, t \in times :
        /\ pc' = "delay"
        /\ call' = delay_us(period_us)
        /\ now' = t
        /\ UNCHANGED <<m, e, data_rx, sent, temp_ticks, hum_ticks, temp, hum,
                       serial_number, ticks_ret, ret, prior, elapsed, trace,
                       written, unit, me, previous, tasks, bus>>

NextDelay ==
    \/ InvokeDelay(DelayPeriods, DelayStartTimes)
    \/ Invoke(ShortFunctions, ShortStartTimes, {0})
    \/ I2cWrite
    \/ DelayStart
    \/ Tick(1)
    \/ DelayOverflowEnd
    \/ DelayEnd
    \/ Receive(Transfers)
    \/ WrapperReturn
    \/ CallerContinues

SpecDelay ==
    /\ Init
    /\ [][NextDelay]_vars
    /\ WF_vars(I2cWrite)
    /\ WF_vars(DelayStart)
    /\ WF_vars(Tick(1))
    /\ WF_vars(DelayOverflowEnd)
    /\ WF_vars(DelayEnd)
    /\ WF_vars(Receive(Transfers))
    /\ WF_vars(WrapperReturn)

(***************************************************************************)
(* A physical-unit measurement on a sensor that reports every tick value:  *)
(* the frame holds the same 16-bit value, with its checksum, as the        *)
(* temperature and as the humidity.                                        *)
(***************************************************************************)
SweepFrames ==
    { LET crc == generate_crc(<<b0, b1>>, 2)
      IN  <<b0, b1, crc, b0, b1, crc>> : b0 \in Bytes, b1 \in Bytes }

SweepTransfers == { [sent |-> f, received |-> f] : f \in SweepFrames }

NextSweep ==
    \/ Invoke({sht4x_measure_high_precision}, WrapStartTimes, {21845})
    \/ I2cWrite
    \/ DelayStart
    \/ Tick(TickUs)
    \/ DelayOverflowEnd
    \/ DelayEnd
    \/ Receive(SweepTransfers)
    \/ WrapperReturn
    \/ CallerContinues

SpecSweep == Init /\ [][NextSweep]_vars

(***************************************************************************)
(* The life of a handle: the caller declares a sht4x_t, calls sht4x_init   *)
(* on it, and goes on to use it, whatever sht4x_init returned being        *)
(* ESP_OK.                                                                 *)
(***************************************************************************)
\* the addresses a sensor answers at
DevAddrs == {SHT40_I2C_ADDR_44, SHT40_I2C_ADDR_45}

\* a handle nothing has been stored in: no endpoint, any id
InitUnbound ==
    /\ pc = "unbound"
    /\ call = sht4x_init
    /\ now = 0
    /\ m = 0
    /\ e = 0
    /\ data_rx = NoFrame
    /\ sent = NoFrame
    /\ temp_ticks = 0
    /\ hum_ticks = 0
    /\ temp = 0
    /\ hum = 0
    /\ serial_number = 0
    /\ ticks_ret = "none"
    /\ ret = "none"
    /\ prior = 0
    /\ elapsed = 0
    /\ trace = <<>>
    /\ written = {}
    /\ unit = NoUnit
    /\ me \in { sht4x_t(0, id) : id \in PriorValues }
    /\ previous = NoPrevious
    /\ tasks = NoTasks
    /\ bus = NoBus

\* sht4x_init(me, i2c_bus_handle, dev_addr): i2c_master_bus_add_device
\* either stores the new endpoint in me->i2c_dev and returns ESP_OK, or
\* fails and stores nothing; ret is ESP_OK on both paths
Sht4xInit(addrs) ==
    /\ pc = "unbound"
    /\ \E dev_addr \in addrs, added \in BOOLEAN :
        /\ pc' = "done"
        /\ call' = sht4x_init
        /\ trace' = Append(trace, Event("add_device", dev_addr, 0, added))
        /\ me' = IF added THEN [me EXCEPT !.i2c_dev = dev_addr] ELSE me
        /\ LET r == ESP_OK
           IN  ret' = IF ~added THEN r ELSE r
        /\ UNCHANGED <<now, m, e, data_rx, sent, temp_ticks, hum_ticks, temp, hum,
                       serial_number, ticks_ret, prior, elapsed, written, unit,
                       previous, tasks, bus>>

NextInit ==
    \/ Sht4xInit(DevAddrs)
    \/ Invoke(Functions, WrapStartTimes, {21845})
    \/ I2cWrite
    \/ DelayStart
    \/ Tick(TickUs)
    \/ DelayOverflowEnd
    \/ DelayEnd
    \/ Receive(Transfers)
    \/ WrapperReturn
    \/ CallerContinues

SpecInit == InitUnbound /\ [][NextInit]_vars

(***************************************************************************)
(* Two callers on one endpoint.  The functions take no lock: each caller   *)
(* runs its own i2c_write, delay_us and i2c_read on the shared endpoint,   *)
(* with its own locals, and the scheduler interleaves their steps.  The    *)
(* callers work in rounds: each runs at most one function, at any moment   *)
(* of the other's, and they start over when both have returned.            *)
(***************************************************************************)
Tasks == {1, 2}

TaskFunctions ==
    {sht4x_measure_high_precision_ticks, sht4x_measure_medium_precision_ticks,
     sht4x_soft_reset}

\* the frames of this bus: the sensor's frames and the all-zero frame
TaskTransfers ==
    { [sent |-> f, received |-> f] : f \in ValidFrames \cup {NoFrame} }

\* a caller that is in no function.  rx_since, rx_by: history, how long
\* after the most recent command on the bus this caller's receive was
\* issued, and who had sent that command; alone: history, no other caller
\* was in a function while this one was
IdleTask ==
    [pc |-> "idle", call |-> sht4x_soft_reset, m |-> 0, e |-> 0, ret |-> "none",
     out |-> <<>>, rx_since |-> -1, rx_by |-> 0, alone |-> TRUE]

InitTasks ==
    /\ pc = "idle"
    /\ call = sht4x_soft_reset
    /\ now = 0
    /\ m = 0
    /\ e = 0
    /\ data_rx = NoFrame
    /\ sent = NoFrame
    /\ temp_ticks = 0
    /\ hum_ticks = 0
    /\ temp = 0
    /\ hum = 0
    /\ serial_number = 0
    /\ ticks_ret = "none"
    /\ ret = "none"
    /\ prior = 0
    /\ elapsed = 0
    /\ trace = <<>>
    /\ written = {}
    /\ unit = NoUnit
    /\ me = BoundHandle
    /\ previous = NoPrevious
    /\ tasks = [t \in Tasks |-> IdleTask]
    /\ bus = NoBus

\* the caller is inside a function
Running(t) == tasks[t].pc \notin {"idle", "done"}

\* a caller enters a function, at any time if it is the first of the round
TaskInvoke(t, functions, times) ==
    /\ tasks[t].pc = "idle"
    /\ LET shared == \E u \in Tasks \ {t} : Running(u)
           started == \E u \in Tasks \ {t} : tasks[u].pc # "idle"
       IN  \E f \in functions, start \in (IF started THEN {now} ELSE times) :
               /\ now' = start
               /\ tasks' = [u \in Tasks |->
                               IF u = t
                               THEN [IdleTask EXCEPT !.pc = "write", !.call = f,
                                                     !.alone = ~shared]
                               ELSE IF Running(u)
                                    THEN [tasks[u] EXCEPT !.alone = FALSE]
                                    ELSE tasks[u]]
    /\ UNCHANGED <<pc, call, m, e, data_rx, sent, temp_ticks, hum_ticks, temp, hum,
                   serial_number, ticks_ret, ret, prior, elapsed, trace, written,
                   unit, me, previous, bus>>

\* if (i2c_write(CMD, NULL, 0, me->i2c_dev) < 0) return ESP_FAIL;
\* a transmit that failed may have put the command on the bus or not
TaskWrite(t) ==
    /\ tasks[t].pc = "write"
    /\ \E ok \in BOOLEAN :
        \E on_bus \in (IF ok THEN {TRUE} ELSE BOOLEAN) :
            /\ bus' = IF on_bus
                      THEN [by |-> t, cmd |-> tasks[t].call.cmd, since |-> 0]
                      ELSE bus
            /\ tasks' = [tasks EXCEPT ![t] =
                            IF i2c_write(ok) < 0
                            THEN [@ EXCEPT !.pc = "done", !.ret = ESP_FAIL]
                            ELSE [@ EXCEPT !.pc = "delay"]]
    /\ UNCHANGED <<pc, call, now, m, e, data_rx, sent, temp_ticks, hum_ticks, temp,
                   hum, serial_number, ticks_ret, ret, prior, elapsed, trace,
                   written, unit, me, previous>>

\* the statement after delay_us: the soft reset returns, the others receive
TaskAfterDelay(task) ==
    IF task.call.kind = "reset"
    THEN [task EXCEPT !.pc = "done", !.ret = ESP_OK]
    ELSE [task EXCEPT !.pc = "read"]

\* delay_us: m = now; if (period_us) { e = m + period_us; ...
TaskDelayStart(t) ==
    /\ tasks[t].pc = "delay"
    /\ LET task == tasks[t]
           deadline == delay_us_deadline(now, task.call.period_us)
       IN  tasks' = [tasks EXCEPT ![t] =
                        IF task.call.period_us # 0
                        THEN [task EXCEPT !.m = now, !.e = deadline,
                                          !.pc = IF now > deadline
                                                 THEN "wait_ovf" ELSE "wait"]
                        ELSE TaskAfterDelay([task EXCEPT !.m = now])]
    /\ UNCHANGED <<pc, call, now, m, e, data_rx, sent, temp_ticks, hum_ticks, temp,
                   hum, serial_number, ticks_ret, ret, prior, elapsed, trace,
                   written, unit, me, previous, bus>>

\* the clock advances between two readings of a caller's spinning loop.
\* A caller whose first loop has seen the counter wrap leaves that loop
\* before the clock is read again: the counter of the model wraps within a
\* round, and a caller held in the first loop until the counter has passed
\* its deadline would spin for a whole lap of it.
TaskTick(us) ==
    /\ \E t \in Tasks :
          \/ tasks[t].pc = "wait_ovf"
                /\ delay_us_overflow_spins(now, tasks[t].e)
          \/ tasks[t].pc = "wait" /\ delay_us_spins(now, tasks[t].e)
    /\ \A t \in Tasks :
          tasks[t].pc = "wait_ovf" => delay_us_overflow_spins(now, tasks[t].e)
    /\ now' = (now + us) % ClockModulus
    /\ bus' = [bus EXCEPT !.since = IF @ + us > ClockModulus
                                    THEN ClockModulus ELSE @ + us]
    /\ UNCHANGED <<pc, call, m, e, data_rx, sent, temp_ticks, hum_ticks, temp, hum,
                   serial_number, ticks_ret, ret, prior, elapsed, trace, written,
                   unit, me, previous, tasks>>

\* the first loop of a caller ends
TaskDelayOverflowEnd(t) ==
    /\ tasks[t].pc = "wait_ovf"
    /\ ~delay_us_overflow_spins(now, tasks[t].e)
    /\ tasks' = [tasks EXCEPT ![t].pc = "wait"]
    /\ UNCHANGED <<pc, call, now, m, e, data_rx, sent, temp_ticks, hum_ticks, temp,
                   hum, serial_number, ticks_ret, ret, prior, elapsed, trace,
                   written, unit, me, previous, bus>>

\* the second loop of a caller ends and its delay_us returns
TaskDelayEnd(t) ==
    /\ tasks[t].pc = "wait"
    /\ ~delay_us_spins(now, tasks[t].e)
    /\ tasks' = [tasks EXCEPT ![t] = TaskAfterDelay(@)]
    /\ UNCHANGED <<pc, call, now, m, e, data_rx, sent, temp_ticks, hum_ticks, temp,
                   hum, serial_number, ticks_ret, ret, prior, elapsed, trace,
                   written, unit, me, previous, bus>>

\* i2c_read of 6 bytes, the checksum loop and the outputs, of one caller
TaskReceive(t, transfers) ==
    /\ tasks[t].pc = "read"
    /\ \E ok \in BOOLEAN, frame \in transfers :
        LET rx == IF ok THEN frame.received ELSE NoFrame
            crc == check_groups(rx, 0)
            issued == [tasks[t] EXCEPT !.pc = "done", !.rx_since = bus.since,
                                       !.rx_by = bus.by]
        IN  tasks' = [tasks EXCEPT ![t] =
                         IF i2c_read(ok) < 0 \/ ~crc.ok
                         THEN [issued EXCEPT !.ret = ESP_FAIL]
                         ELSE [issued EXCEPT !.ret = ESP_OK,
                                             !.out = <<ticks_value(rx, 0),
                                                       ticks_value(rx, 3)>>]]
    /\ UNCHANGED <<pc, call, now, m, e, data_rx, sent, temp_ticks, hum_ticks, temp,
                   hum, serial_number, ticks_ret, ret, prior, elapsed, trace,
                   written, unit, me, previous, bus>>

\* every caller has returned: the round is over, nothing of it is kept
TasksContinue ==
    /\ \A t \in Tasks : ~Running(t)
    /\ \E t \in Tasks : tasks[t].pc = "done"
    /\ tasks' = [t \in Tasks |-> IdleTask]
    /\ now' = 0
    /\ bus' = NoBus
    /\ UNCHANGED <<pc, call, m, e, data_rx, sent, temp_ticks, hum_ticks, temp, hum,
                   serial_number, ticks_ret, ret, prior, elapsed, trace, written,
                   unit, me, previous>>

NextTasks ==
    \/ \E t \in Tasks : TaskInvoke(t, TaskFunctions, {0} \cup WrapStartTimes)
    \/ \E t \in Tasks : TaskWrite(t)
    \/ \E t \in Tasks : TaskDelayStart(t)
    \/ TaskTick(TickUs)
    \/ \E t \in Tasks : TaskDelayOverflowEnd(t)
    \/ \E t \in Tasks : TaskDelayEnd(t)
    \/ \E t \in Tasks : TaskReceive(t, TaskTransfers)
    \/ TasksContinue

SpecTasks == InitTasks /\ [][NextTasks]_vars

(***************************************************************************)
(* The same driver on a stuck bus: every receive that reports success      *)
(* delivers six equal bytes, 0x00 (the buffer as it was initialised, the   *)
(* data line held low) or 0xFF (the data line left high).                  *)
(***************************************************************************)
StuckFrames == { NoFrame, <<255, 255, 255, 255, 255, 255>> }

StuckTransfers == { [sent |-> f, received |-> f] : f \in StuckFrames }

NextStuck ==
    \/ Invoke(Functions, WrapStartTimes, PriorValues)
    \/ I2cWrite
    \/ DelayStart
    \/ Tick(TickUs)
    \/ DelayOverflowEnd
    \/ DelayEnd
    \/ Receive(StuckTransfers)
    \/ WrapperReturn
    \/ CallerContinues

SpecStuck == Init /\ [][NextStuck]_vars

(***************************************************************************)
(* A caller that calls again: it takes the result of a call, whatever it   *)
(* is, and makes its next call, the same function or another; what the     *)
(* last call was and what it returned is remembered as history.            *)
(***************************************************************************)
RetryFunctions ==
    {sht4x_measure_lowest_precision_ticks, sht4x_measure_lowest_precision,
     sht4x_get_serial_number, sht4x_soft_reset}

\* the caller has taken the result; the function's locals are gone
CallerTakesResult ==
    /\ pc = "done"
    /\ previous' = [fn |-> call.fn, ret |-> ret]
    /\ pc' = "idle"
    /\ call' = sht4x_soft_reset
    /\ now' = 0
    /\ m' = 0
    /\ e' = 0
    /\ data_rx' = NoFrame
    /\ sent' = NoFrame
    /\ temp_ticks' = 0
    /\ hum_ticks' = 0
    /\ temp' = 0
    /\ hum' = 0
    /\ serial_number' = 0
    /\ ticks_ret' = "none"
    /\ ret' = "none"
    /\ prior' = 0
    /\ elapsed' = 0
    /\ trace' = <<>>
    /\ written' = {}
    /\ UNCHANGED <<unit, me, tasks, bus>>

NextRetry ==
    \/ Invoke(RetryFunctions, WrapStartTimes, PriorValues)
    \/ I2cWrite
    \/ DelayStart
    \/ Tick(TickUs)
    \/ DelayOverflowEnd
    \/ DelayEnd
    \/ Receive(Transfers)
    \/ WrapperReturn
    \/ CallerTakesResult

SpecRetry == Init /\ [][NextRetry]_vars

(***************************************************************************)
(* Properties.  Helpers that read the history of the running call.         *)
(***************************************************************************)
EventsOf(ev) == { k \in 1..Len(trace) : trace[k].ev = ev }

\* the function that talks to the sensor has returned
Returned == pc \in {"wrapper", "done"}

\* the value it returned
Returns(value) ==
    \/ pc = "wrapper" /\ ticks_ret = value
    \/ pc = "done" /\ call.kind # "physical" /\ ret = value
    \/ pc = "done" /\ call.kind = "physical" /\ ticks_ret = value /\ ret = value

TransmitFailed == \E k \in EventsOf("transmit") : ~trace[k].ok

ReceiveFailed == \E k \in EventsOf("receive") : ~trace[k].ok

ReceiveSucceeded == \E k \in EventsOf("receive") : trace[k].ok

ChecksumFailed == \E k \in EventsOf("check_crc") : ~trace[k].ok

\* the checksum byte of the group at i is the checksum of its two data bytes
GroupMatches(rx, i) == generate_crc(<<rx[i + 1], rx[i + 2]>>, 2) = rx[i + 3]

\* the caller's output variables of the public function
OutputsOf(f) ==
    CASE f.kind = "ticks" -> {"temp_ticks", "hum_ticks"}
      [] f.kind = "physical" -> {"temp", "hum"}
      [] f.kind = "serial" -> {"serial_number"}
      [] OTHER -> {}

\* no output of the caller was assigned, and each holds what it held before
OutputsUntouched ==
    /\ written \cap OutputsOf(call) = {}
    /\ call.kind = "ticks" => temp_ticks = prior /\ hum_ticks = prior
    /\ call.kind = "physical" => temp = prior /\ hum = prior
    /\ call.kind = "serial" => serial_number = prior

\* the opcode table of the specification: opcode, settle time in milliseconds
TableRow(fn) ==
    CASE fn \in {"sht4x_measure_high_precision_ticks",
                 "sht4x_measure_high_precision"} -> <<253, 10>>          \* 0xFD
      [] fn \in {"sht4x_measure_medium_precision_ticks",
                 "sht4x_measure_medium_precision"} -> <<246, 5>>         \* 0xF6
      [] fn \in {"sht4x_measure_lowest_precision_ticks",
                 "sht4x_measure_lowest_precision"} -> <<224, 2>>         \* 0xE0
      [] fn \in {"sht4x_activate_highest_heater_power_long_ticks",
                 "sht4x_activate_highest_heater_power_long"} -> <<57, 1100>>  \* 0x39
      [] fn \in {"sht4x_activate_highest_heater_power_short_ticks",
                 "sht4x_activate_highest_heater_power_short"} -> <<50, 110>>  \* 0x32
      [] fn \in {"sht4x_activate_medium_heater_power_long_ticks",
                 "sht4x_activate_medium_heater_power_long"} -> <<47, 1100>>   \* 0x2F
      [] fn \in {"sht4x_activate_medium_heater_power_short_ticks",
                 "sht4x_activate_medium_heater_power_short"} -> <<36, 110>>   \* 0x24
      [] fn \in {"sht4x_activate_lowest_heater_power_long_ticks",
                 "sht4x_activate_lowest_heater_power_long"} -> <<30, 1100>>   \* 0x1E
      [] fn \in {"sht4x_activate_lowest_heater_power_short_ticks",
                 "sht4x_activate_lowest_heater_power_short"} -> <<21, 110>>   \* 0x15
      [] fn = "sht4x_get_serial_number" -> <<137, 10>>                   \* 0x89
      [] fn = "sht4x_soft_reset" -> <<148, 10>>                          \* 0x94

TableOpcode(fn) == TableRow(fn)[1]

TableSettleUs(fn) == TableRow(fn)[2] * 1000

(***************************************************************************)
(* C1: every operation transmits exactly the opcode of its row of the      *)
(* opcode table, and its receive (for the soft reset: its successful       *)
(* return) comes no earlier than the row's settle time after the transmit. *)
(***************************************************************************)
C1_OpcodeAndSettle ==
    /\ \A k \in EventsOf("transmit") :
          /\ k = 1
          /\ trace[k].val = TableOpcode(call.fn)
          /\ trace[k].len = 1
    /\ \A k \in EventsOf("receive") :
          /\ 1 \in EventsOf("transmit")
          /\ trace[k].at >= TableSettleUs(call.fn)
    /\ pc = "read" => elapsed >= TableSettleUs(call.fn)
    /\ (call.kind = "reset" /\ pc = "done" /\ ret = ESP_OK) =>
          /\ 1 \in EventsOf("transmit")
          /\ elapsed >= TableSettleUs(call.fn)

\* a heater measurement whose deadline wrapped has waited and received
C1_Witness ==
    /\ call.fn = "sht4x_activate_highest_heater_power_long"
    /\ m > e
    /\ \E k \in EventsOf("receive") : trace[k].ok /\ trace[k].at >= 1100 * 1000

(***************************************************************************)
(* C2: when the transmit of the command fails the function returns failure *)
(* at once: delay_us is not started and nothing is received.               *)
(***************************************************************************)
C2_WriteFailureReturns ==
    TransmitFailed =>
        /\ Returned
        /\ Returns(ESP_FAIL)
        /\ Len(trace) = 1
        /\ EventsOf("delay_us") = {}
        /\ EventsOf("receive") = {}
        /\ elapsed = 0
        /\ pc = "done" => ret = ESP_FAIL

\* a physical-unit function has returned after a failed transmit
C2_Witness ==
    /\ TransmitFailed
    /\ pc = "done"
    /\ call.kind = "physical"
    /\ ret = ESP_FAIL

(***************************************************************************)
(* C3: a measurement, tick-level or physical, that received a frame in     *)
(* which the checksum of group 0-2 or of group 3-5 does not match returns  *)
(* failure and assigns no output, also when the other group matches; the   *)
(* caller's output variables hold what they held before the call.          *)
(***************************************************************************)
C3_AllOrNothing ==
    ( /\ call \in MeasurementFunctions
      /\ Returned
      /\ ReceiveSucceeded
      /\ ~GroupMatches(data_rx, 0) \/ ~GroupMatches(data_rx, 3) ) =>
        /\ Returns(ESP_FAIL)
        /\ written = {}
        /\ OutputsUntouched
        /\ pc = "done" => ret = ESP_FAIL

\* a physical-unit measurement has failed on a frame whose first group is
\* right and whose second group is wrong
C3_Witness ==
    /\ call \in PhysicalFunctions
    /\ pc = "done"
    /\ ReceiveSucceeded
    /\ GroupMatches(data_rx, 0)
    /\ ~GroupMatches(data_rx, 3)
    /\ ret = ESP_FAIL
    /\ prior # 0

(***************************************************************************)
(* C4: when the receive fails the function returns failure, no checksum is *)
(* evaluated and no output is assigned.                                    *)
(***************************************************************************)
C4_ReadFailureReturns ==
    ReceiveFailed =>
        /\ Returned
        /\ Returns(ESP_FAIL)
        /\ EventsOf("check_crc") = {}
        /\ written = {}
        /\ OutputsUntouched
        /\ pc = "done" => ret = ESP_FAIL

\* the serial number read has returned after a failed receive
C4_Witness ==
    /\ ReceiveFailed
    /\ call.kind = "serial"
    /\ pc = "done"
    /\ ret = ESP_FAIL
    /\ prior # 0

(***************************************************************************)
(* C5, as claimed: a failed transfer is returned as TransportError and a   *)
(* checksum mismatch as ChecksumError, two values the caller can tell      *)
(* apart.                                                                  *)
(***************************************************************************)
C5_TypedFailures ==
    pc = "done" =>
        \* TransportError is the value returned for a failed transfer
        /\ (TransmitFailed \/ ReceiveFailed) => ret = ESP_FAIL
        \* ChecksumError is another value, and not success
        /\ ChecksumFailed => ret # ESP_FAIL /\ ret # ESP_OK

(***************************************************************************)
(* C5, amended: every failure - of the transmit, of the receive, or a      *)
(* checksum mismatch - is returned as the one value ESP_FAIL, by every     *)
(* function, the physical-unit ones included; ESP_OK is returned when      *)
(* nothing failed.  The value returned tells failure from success only.    *)
(***************************************************************************)
C5_OneFailureCode ==
    pc = "done" =>
        LET mismatch == /\ ReceiveSucceeded
                        /\ ~GroupMatches(data_rx, 0) \/ ~GroupMatches(data_rx, 3)
        IN  /\ ret \in {ESP_OK, ESP_FAIL}
            /\ ret = ESP_FAIL <=> (TransmitFailed \/ ReceiveFailed \/ mismatch)
            /\ mismatch <=> ChecksumFailed

\* a physical-unit function has returned ESP_FAIL for a checksum mismatch
C5_Witness ==
    /\ pc = "done"
    /\ call.kind = "physical"
    /\ ChecksumFailed
    /\ ~TransmitFailed
    /\ ~ReceiveFailed
    /\ ret = ESP_FAIL

(***************************************************************************)
(* C6: a tick-level measurement whose transmit and receive succeeded and   *)
(* whose frame b0..b5 has two matching checksums returns success with      *)
(* temperature ticks 256*b0 + b1 and humidity ticks 256*b3 + b4, both      *)
(* unsigned 16-bit values; b2 and b5 do not enter the values.              *)
(***************************************************************************)
C6_TicksBigEndian ==
    ( /\ call \in TicksFunctions
      /\ pc = "done"
      /\ ~TransmitFailed
      /\ ReceiveSucceeded
      /\ GroupMatches(data_rx, 0)
      /\ GroupMatches(data_rx, 3) ) =>
        /\ ret = ESP_OK
        /\ temp_ticks = 256 * data_rx[1] + data_rx[2]
        /\ hum_ticks = 256 * data_rx[4] + data_rx[5]
        /\ temp_ticks \in 0..65535
        /\ hum_ticks \in 0..65535
        /\ written = {"temp_ticks", "hum_ticks"}

\* a heater measurement has returned the ticks of a frame whose two values
\* differ and whose bytes differ within each value
C6_Witness ==
    /\ call = sht4x_activate_lowest_heater_power_short_ticks
    /\ pc = "done"
    /\ ret = ESP_OK
    /\ data_rx[1] # data_rx[2]
    /\ data_rx[4] # data_rx[5]
    /\ temp_ticks # hum_ticks
    /\ temp_ticks = 256 * data_rx[1] + data_rx[2]

(***************************************************************************)
(* C7, as claimed: the serial number read of a frame b0..b5 with matching  *)
(* checksums reports (256*b0 + b1) * 65536 + (256*b3 + b4): the first pair *)
(* in the upper 16 bits, the second pair in the lower 16 bits.             *)
(***************************************************************************)
C7_SerialNumberShifted ==
    ( /\ call.kind = "serial"
      /\ pc = "done"
      /\ ~TransmitFailed
      /\ ReceiveSucceeded
      /\ GroupMatches(data_rx, 0)
      /\ GroupMatches(data_rx, 3) ) =>
        /\ ret = ESP_OK
        /\ serial_number \div 65536 = 256 * data_rx[1] + data_rx[2]
        /\ serial_number % 65536 = 256 * data_rx[4] + data_rx[5]

(***************************************************************************)
(* C8: the soft reset transmits opcode 0x94 and never receives; it returns *)
(* success exactly when the transmit succeeded, and then after the 10 ms   *)
(* settle, and failure exactly when the transmit failed, and then without  *)
(* any delay.                                                              *)
(***************************************************************************)
C8_SoftReset ==
    call.kind = "reset" =>
        /\ \A k \in EventsOf("transmit") : trace[k].val = 148 /\ trace[k].len = 1
        /\ pc # "read"
        /\ EventsOf("receive") = {}
        /\ EventsOf("check_crc") = {}
        /\ written = {}
        /\ pc = "done" =>
              /\ Cardinality(EventsOf("transmit")) = 1
              /\ ret = ESP_OK <=> ~TransmitFailed
              /\ ret = ESP_FAIL <=> TransmitFailed
              /\ ret = ESP_OK =>
                    /\ \E k \in EventsOf("delay_us") : trace[k].val = 10 * 1000
                    /\ elapsed >= 10 * 1000
              /\ ret = ESP_FAIL =>
                    /\ EventsOf("delay_us") = {}
                    /\ elapsed = 0

\* a soft reset whose deadline wrapped has returned success
C8_Witness ==
    /\ call.kind = "reset"
    /\ pc = "done"
    /\ ret = ESP_OK
    /\ m > e
    /\ elapsed >= 10 * 1000

(***************************************************************************)
(* C9: a call transmits exactly once and receives at most once, whatever   *)
(* its outcome; after a failure (of the transmit, of the receive, of a     *)
(* checksum) nothing more is transmitted, received or checked.             *)
(***************************************************************************)
C9_NoRetry ==
    /\ Cardinality(EventsOf("transmit")) <= 1
    /\ Cardinality(EventsOf("receive")) <= 1
    /\ pc \notin {"idle", "write"} => Cardinality(EventsOf("transmit")) = 1
    /\ \A k \in 1..Len(trace) : ~trace[k].ok => k = Len(trace)
    /\ (TransmitFailed \/ ReceiveFailed \/ ChecksumFailed) => Returned

\* a call has ended on a mismatch of the second checksum after one transmit
\* and one receive
C9_Witness ==
    /\ pc = "done"
    /\ ret = ESP_FAIL
    /\ Cardinality(EventsOf("transmit")) = 1
    /\ Cardinality(EventsOf("receive")) = 1
    /\ Cardinality(EventsOf("check_crc")) = 2
    /\ ChecksumFailed

(***************************************************************************)
(* C10: a measurement that receives a frame which differs in exactly one   *)
(* of its six bytes from a frame with two matching checksums fails and     *)
(* assigns no output.                                                      *)
(***************************************************************************)
C10_SingleByteCorruption ==
    ( /\ call \in MeasurementFunctions
      /\ Returned
      /\ ReceiveSucceeded
      /\ GroupMatches(sent, 0)
      /\ GroupMatches(sent, 3)
      /\ Cardinality({ i \in 1..6 : sent[i] # data_rx[i] }) = 1 ) =>
        /\ Returns(ESP_FAIL)
        /\ written = {}
        /\ OutputsUntouched
        /\ pc = "done" => ret = ESP_FAIL

\* a physical-unit measurement has failed on a frame whose second data byte
\* of the second group was changed in its lowest bit only
C10_Witness ==
    /\ call \in PhysicalFunctions
    /\ pc = "done"
    /\ ReceiveSucceeded
    /\ GroupMatches(sent, 0)
    /\ GroupMatches(sent, 3)
    /\ { i \in 1..6 : sent[i] # data_rx[i] } = {5}
    /\ BitXor(sent[5], data_rx[5], 8) = 1
    /\ ret = ESP_FAIL

(***************************************************************************)
(* C11: for every payload of two bytes and every checksum byte, check_crc  *)
(* returns true exactly when the byte equals generate_crc of the payload:  *)
(* the checksum generate_crc computes is accepted, and it is the only one  *)
(* of the 256 values that is.                                              *)
(***************************************************************************)
C11_CheckIffEqual ==
    unit.fn = "check_done" =>
        /\ unit.crc \in Bytes
        /\ unit.crc \in unit.accepted
        /\ unit.accepted = { unit.crc }
        /\ Cardinality(unit.accepted) = 1

\* a payload whose checksum has the top bit set has been checked
C11_Witness ==
    /\ unit.fn = "check_done"
    /\ unit.data = <<255, 255>>
    /\ unit.crc >= 128
    /\ unit.accepted = { unit.crc }

(***************************************************************************)
(* C12: the checksum computed for the payload 0xBE 0xEF is 0x92.           *)
(***************************************************************************)
C12_KnownVector ==
    (unit.fn \in {"crc_done", "check_done"} /\ unit.data = <<190, 239>>) =>
        unit.crc = 146

\* generate_crc has been applied to the payload 0xBE 0xEF
C12_Witness ==
    /\ unit.fn = "crc_done"
    /\ unit.data = <<190, 239>>
    /\ unit.crc = 146

(***************************************************************************)
(* The CRC-8 of the specification, defined without the code: polynomial    *)
(* 0x31 (x^8 + x^5 + x^4 + 1, 0x131 with its top term), initial value      *)
(* 0xFF, most significant bit first, no reflection, no final XOR.          *)
(***************************************************************************)
\* the remainder of the division of value by the polynomial over GF(2):
\* value has no term above weight * x^8; that term is cancelled by adding
\* weight times the polynomial, then the next lower one, down to x^8
RECURSIVE Crc8Remainder(_, _)
Crc8Remainder(value, weight) ==
    IF weight = 0 THEN value
    ELSE Crc8Remainder(
             IF value \div weight >= 256
             THEN BitXor(value \div weight, 305, 9) * weight + (value % weight)
             ELSE value,
             weight \div 2)

\* the initial value is added to the first byte, the message is multiplied
\* by x^8 and divided
Crc8ByDivision(data) ==
    Crc8Remainder((BitXor(data[1], 255, 8) * 256 + data[2]) * 256, 32768)

\* one shift of the running value, truncated to 8 bits
Crc8Shift(value) ==
    IF value >= 128
    THEN BitXor((2 * value) % 256, 49, 8)
    ELSE (2 * value) % 256

\* per byte: XOR into the running value, then eight shifts
Crc8Byte(value, byte) ==
    Crc8Shift(Crc8Shift(Crc8Shift(Crc8Shift(
        Crc8Shift(Crc8Shift(Crc8Shift(Crc8Shift(BitXor(value, byte, 8)))))))))

Crc8Stepwise(data) == Crc8Byte(Crc8Byte(255, data[1]), data[2])

(***************************************************************************)
(* C13: for every payload of two bytes generate_crc equals the reference   *)
(* CRC-8 (polynomial 0x31, initial value 0xFF, MSB first, not reflected,   *)
(* no final XOR), computed as the remainder of the polynomial division     *)
(* and computed byte by byte with eight truncated shifts per byte.         *)
(***************************************************************************)
C13_ReferenceCrc8 ==
    unit.fn = "crc_done" =>
        LET data == unit.data
            crc == unit.crc
        IN  /\ crc = Crc8ByDivision(data)
            /\ crc = Crc8Stepwise(data)
            /\ crc \in 0..255

\* generate_crc has been applied to a payload for which the polynomial is
\* not XORed in during the first shift
C13_Witness ==
    /\ unit.fn = "crc_done"
    /\ unit.data = <<128, 0>>
    /\ unit.crc = Crc8ByDivision(<<128, 0>>)

(***************************************************************************)
(* C14: delay_us never returns early.  On a counter that wraps and is read *)
(* at every tick, for every first reading and every period, the statement  *)
(* after delay_us is reached only when at least period ticks have elapsed  *)
(* since the first reading - also when the deadline first reading + period *)
(* wraps and is numerically smaller than the first reading.                *)
(***************************************************************************)
C14_NeverEarly ==
    /\ (call.kind = "delay" /\ pc = "done") => elapsed >= call.period_us
    /\ (pc = "read" \/ EventsOf("receive") # {}) => elapsed >= call.period_us
    /\ pc \in {"wait_ovf", "wait"} => elapsed = (now - m) % ClockModulus
    /\ pc = "wait_ovf" => m > e

\* delay_us has returned from a wait whose deadline, not zero, was smaller
\* than its first reading
C14_Witness ==
    /\ call.kind = "delay"
    /\ pc = "done"
    /\ call.period_us > 1
    /\ m > e
    /\ e > 0
    /\ elapsed >= call.period_us

(***************************************************************************)
(* C15: delay_us cannot hang.  On a counter that wraps and, read at every  *)
(* tick, keeps advancing, every call of delay_us returns, for every first  *)
(* reading and every period, also when the counter wraps during the wait;  *)
(* so every function that is called returns, the transport calls           *)
(* returning.                                                              *)
(***************************************************************************)
C15_DelayReturns ==
    /\ (pc \in {"delay", "wait_ovf", "wait"})
           ~> (pc \in {"read", "wrapper", "done"})
    /\ (pc # "idle") ~> (pc = "done")

\* delay_us has returned from a wait during which the counter wrapped to
\* the deadline zero
C15_Witness ==
    /\ call.kind = "delay"
    /\ pc = "done"
    /\ call.period_us > 1
    /\ m > e
    /\ e = 0
    /\ now = 0

(***************************************************************************)
(* The affine maps of the specification, ticks * factor / 65535 - offset,  *)
(* without the code: the number of whole units of 2^-22 in the value.      *)
(***************************************************************************)
\* floor((quo + rem / 65535) * 2^bits)
RECURSIVE ScaledFloor(_, _, _)
ScaledFloor(quo, rem, bits) ==
    IF bits = 0 THEN quo
    ELSE ScaledFloor(2 * quo + (2 * rem) \div 65535, (2 * rem) % 65535, bits - 1)

AffineFloor(ticks, factor, offset) ==
    ScaledFloor((ticks * factor) \div 65535, (ticks * factor) % 65535, 22)
        - offset * FloatOne

\* the rounding of a float below 256: half of 2^-16, in units of 2^-22
FloatTolerance == Pow2(22 - 17)

\* a physical-unit function has returned success
PhysicalDone == call \in PhysicalFunctions /\ pc = "done" /\ ret = ESP_OK

(***************************************************************************)
(* C16: the temperature a physical-unit function returns for ticks is      *)
(* ticks * 175 / 65535 - 45 within the rounding of a float, for every      *)
(* 16-bit value of ticks; it is -45.0 for ticks = 0 and 130.0 for ticks =  *)
(* 65535, and it does not decrease from ticks to ticks + 1.                *)
(***************************************************************************)
C16_CelsiusAffine ==
    PhysicalDone =>
        LET ticks == temp_ticks
            floor == AffineFloor(ticks, 175, 45)
        IN  /\ temp >= floor - FloatTolerance
            /\ temp <= floor + 1 + FloatTolerance
            /\ ticks = 0 => temp = 0 - 45 * FloatOne
            /\ ticks = 65535 => temp = 130 * FloatOne
            /\ ticks < 65535 => temp <= convert_ticks_to_celsius(ticks + 1)
            /\ temp >= 0 - 45 * FloatOne
            /\ temp <= 130 * FloatOne

\* the temperature of the largest tick value has been returned
C16_Witness ==
    /\ PhysicalDone
    /\ temp_ticks = 65535
    /\ temp = 130 * FloatOne
    /\ "temp" \in written

(***************************************************************************)
(* C17: the humidity a physical-unit function returns for ticks is         *)
(* ticks * 125 / 65535 - 6 within the rounding of a float, for every       *)
(* 16-bit value of ticks, and is not clamped: it is -6.0 for ticks = 0 and *)
(* 119.0 for ticks = 65535, below 0 for every tick value that maps below 0 *)
(* and above 100 for every tick value that maps above 100.                 *)
(***************************************************************************)
C17_HumidityNotClamped ==
    PhysicalDone =>
        LET ticks == hum_ticks
            floor == AffineFloor(ticks, 125, 6)
        IN  /\ hum >= floor - FloatTolerance
            /\ hum <= floor + 1 + FloatTolerance
            /\ ticks = 0 => hum = 0 - 6 * FloatOne
            /\ ticks = 65535 => hum = 119 * FloatOne
            /\ ticks * 125 < 6 * 65535 => hum < 0
            /\ ticks * 125 > 106 * 65535 => hum > 100 * FloatOne

\* a humidity above 100 has been returned
C17_Witness ==
    /\ PhysicalDone
    /\ hum_ticks = 65535
    /\ hum = 119 * FloatOne
    /\ hum > 100 * FloatOne
    /\ "hum" \in written

(***************************************************************************)
(* What a call did on the bus and what the bus did to it, read from the    *)
(* history: the transfers, the delay and the checks without their times,   *)
(* and the outcome of the transmit and of the receive.                     *)
(***************************************************************************)
Step(ev, val, len, ok) == [ev |-> ev, val |-> val, len |-> len, ok |-> ok]

Steps ==
    [k \in 1..Len(trace) |->
        Step(trace[k].ev, trace[k].val, trace[k].len, trace[k].ok)]

WriteOk == ~TransmitFailed

ReadOk == ~ReceiveFailed

\* the steps of a measurement that sends opcode cmd and waits period_us, on
\* a bus with these outcomes that delivers the frame rx
MeasurementSteps(cmd, period_us, write_ok, read_ok, rx) ==
    <<Step("transmit", cmd, 1, write_ok)>>
    \o (IF ~write_ok THEN <<>>
        ELSE <<Step("delay_us", period_us, 0, TRUE), Step("receive", 0, 6, read_ok)>>
             \o (IF ~read_ok THEN <<>>
                 ELSE <<Step("check_crc", 0, 2, GroupMatches(rx, 0))>>
                      \o (IF ~GroupMatches(rx, 0) THEN <<>>
                          ELSE <<Step("check_crc", 3, 2, GroupMatches(rx, 3))>>)))

\* whether it succeeds
MeasurementSucceeds(write_ok, read_ok, rx) ==
    write_ok /\ read_ok /\ GroupMatches(rx, 0) /\ GroupMatches(rx, 3)

\* the tick-level function a physical-unit function stands next to in the
\* opcode table
Counterpart(f) == CHOOSE t \in TicksFunctions : TableRow(t.fn) = TableRow(f.fn)

(***************************************************************************)
(* C18: a physical-unit function refines its tick-level counterpart.  On   *)
(* every behaviour of the bus both take the same steps on it (the opcode,  *)
(* the delay, the receive, the checks) and both succeed or both fail; on   *)
(* success the tick-level function yields the two tick values of the frame *)
(* and the physical-unit function the conversions of exactly these two, on *)
(* failure the physical-unit function assigns neither float.               *)
(***************************************************************************)
C18_PhysicalRefinesTicks ==
    pc = "done" =>
        LET ok == MeasurementSucceeds(WriteOk, ReadOk, data_rx)
        IN  /\ call \in TicksFunctions =>
                /\ Steps = MeasurementSteps(call.cmd, call.period_us,
                                            WriteOk, ReadOk, data_rx)
                /\ ret = (IF ok THEN ESP_OK ELSE ESP_FAIL)
                /\ ok => /\ temp_ticks = ticks_value(data_rx, 0)
                         /\ hum_ticks = ticks_value(data_rx, 3)
            /\ call \in PhysicalFunctions =>
                LET t == Counterpart(call)
                IN  /\ call.calls = t.fn
                    /\ Steps = MeasurementSteps(t.cmd, t.period_us,
                                                WriteOk, ReadOk, data_rx)
                    /\ ret = (IF ok THEN ESP_OK ELSE ESP_FAIL)
                    /\ ret = ESP_OK <=> ticks_ret = ESP_OK
                    /\ ok => /\ temp = convert_ticks_to_celsius(
                                           ticks_value(data_rx, 0))
                             /\ hum = convert_ticks_to_percent_rh(
                                          ticks_value(data_rx, 3))
                             /\ {"temp", "hum"} \subseteq written
                    /\ ~ok => /\ written \cap {"temp", "hum"} = {}
                              /\ temp = prior
                              /\ hum = prior

\* a physical-unit heater measurement has returned the conversions of two
\* different tick values
C18_Witness ==
    /\ call = sht4x_activate_medium_heater_power_short
    /\ pc = "done"
    /\ ret = ESP_OK
    /\ ticks_value(data_rx, 0) # ticks_value(data_rx, 3)
    /\ temp = convert_ticks_to_celsius(ticks_value(data_rx, 0))
    /\ hum = convert_ticks_to_percent_rh(ticks_value(data_rx, 3))

(***************************************************************************)
(* The one procedure behind the tick-level functions: what a measurement   *)
(* does, by name and in order, and what it yields, given the outcomes of   *)
(* the bus and the frame received - and nothing of the function called.    *)
(***************************************************************************)
ProcedureSteps(write_ok, read_ok, rx) ==
    <<"transmit">>
    \o (IF ~write_ok THEN <<>>
        ELSE <<"delay_us", "receive">>
             \o (IF ~read_ok THEN <<>>
                 ELSE <<"check_crc 0-2">>
                      \o (IF ~GroupMatches(rx, 0) THEN <<>>
                          ELSE <<"check_crc 3-5">>
                               \o (IF ~GroupMatches(rx, 3) THEN <<>>
                                   ELSE <<"write outputs">>))))

ProcedureResult(write_ok, read_ok, rx) ==
    IF MeasurementSucceeds(write_ok, read_ok, rx)
    THEN [status |-> ESP_OK,
          temp_ticks |-> 256 * rx[1] + rx[2],
          hum_ticks |-> 256 * rx[4] + rx[5]]
    ELSE [status |-> ESP_FAIL, temp_ticks |-> prior, hum_ticks |-> prior]

\* the steps the running call took, by name; the assignment of the outputs
\* comes last
StepNames ==
    [k \in 1..Len(trace) |->
        IF trace[k].ev = "check_crc"
        THEN (IF trace[k].val = 0 THEN "check_crc 0-2" ELSE "check_crc 3-5")
        ELSE trace[k].ev]
    \o (IF written # {} THEN <<"write outputs">> ELSE <<>>)

(***************************************************************************)
(* C19: the nine tick-level functions are one procedure with two           *)
(* parameters.  The status and the tick values a tick-level function       *)
(* returns and the sequence of its steps - transmit, delay, receive, check *)
(* of group 0-2, check of group 3-5, assignment of the outputs - depend on *)
(* the outcomes of the bus and on the frame alone, so any two of the nine  *)
(* agree on them; the function called decides the opcode transmitted and   *)
(* the period waited, and nothing else.                                    *)
(***************************************************************************)
C19_OneProcedure ==
    (call \in TicksFunctions /\ pc = "done") =>
        LET result == ProcedureResult(WriteOk, ReadOk, data_rx)
        IN  /\ StepNames = ProcedureSteps(WriteOk, ReadOk, data_rx)
            /\ ret = result.status
            /\ temp_ticks = result.temp_ticks
            /\ hum_ticks = result.hum_ticks
            /\ written \in {{}, {"temp_ticks", "hum_ticks"}}
            /\ \A k \in 1..Len(trace) :
                  /\ trace[k].ev = "transmit" =>
                        trace[k].val = call.cmd /\ trace[k].len = 1
                  /\ trace[k].ev = "delay_us" =>
                        trace[k].val = call.period_us /\ trace[k].len = 0
                  /\ trace[k].ev = "receive" =>
                        trace[k].val = 0 /\ trace[k].len = 6
                  /\ trace[k].ev = "check_crc" =>
                        trace[k].val \in {0, 3} /\ trace[k].len = 2

\* a heater function has gone through all the steps of the procedure
C19_Witness ==
    /\ call = sht4x_activate_highest_heater_power_long_ticks
    /\ pc = "done"
    /\ StepNames = <<"transmit", "delay_us", "receive", "check_crc 0-2",
                     "check_crc 3-5", "write outputs">>
    /\ ret = ESP_OK

(***************************************************************************)
(* C20: the framing of the bus calls.  Every transmit is of exactly one    *)
(* byte, the opcode of the function called, with no payload; every receive *)
(* asks for exactly 6 bytes, and only the soft reset does not receive; no  *)
(* function transmits or receives any other number of bytes.               *)
(***************************************************************************)
C20_Framing ==
    /\ \A k \in EventsOf("transmit") :
          /\ trace[k].len = 1
          /\ trace[k].val = call.cmd
          /\ trace[k].val = TableOpcode(call.fn)
    /\ \A k \in EventsOf("receive") :
          /\ trace[k].len = 6
          /\ call.kind # "reset"
    /\ \A k \in 1..Len(trace) :
          trace[k].ev \in {"transmit", "receive", "delay_us", "check_crc"}
    /\ Len(data_rx) = 6
    /\ (pc = "done" /\ ~TransmitFailed /\ call.kind # "reset") =>
          Cardinality(EventsOf("receive")) = 1

\* the serial number read has transmitted its opcode in one byte and has
\* received six bytes
C20_Witness ==
    /\ call.kind = "serial"
    /\ pc = "done"
    /\ \E k \in EventsOf("transmit") :
          trace[k].val = 137 /\ trace[k].len = 1 /\ trace[k].ok
    /\ \E k \in EventsOf("receive") : trace[k].len = 6 /\ trace[k].ok

(***************************************************************************)
(* C21: the checksum detects every single-bit error.  For every 2-byte     *)
(* payload, the test vector 0xBE 0xEF among them, and each of its 16       *)
(* single-bit flips, generate_crc of the flipped payload differs from      *)
(* generate_crc of the payload.                                            *)
(***************************************************************************)
C21_SingleBitFlips ==
    unit.fn = "flip_done" =>
        /\ Len(unit.flipped) = 16
        /\ \A bit \in 1..16 : unit.flipped[bit] # unit.crc

\* the 16 flips of the test vector 0xBE 0xEF have been run through
\* generate_crc, the flip of the lowest bit of each byte among them
C21_Witness ==
    /\ unit.fn = "flip_done"
    /\ unit.data = <<190, 239>>
    /\ unit.crc = 146
    /\ unit.flipped[1] = generate_crc(<<191, 239>>, 2)
    /\ unit.flipped[9] = generate_crc(<<190, 238>>, 2)
    /\ unit.flipped[1] # 146

(***************************************************************************)
(* C22: the serial number as implemented.  On a frame whose two checksums  *)
(* match, sht4x_get_serial_number returns ESP_OK and reports the bitwise   *)
(* OR of the two 16-bit words, (256*b0 + b1) OR (256*b3 + b4): the         *)
(* identifier never exceeds 0xFFFF, and the frame with the two words       *)
(* exchanged reports the same identifier, so different word pairs          *)
(* collide.                                                                *)
(***************************************************************************)
\* the frame with its two groups exchanged
SwappedWords(rx) == <<rx[4], rx[5], rx[6], rx[1], rx[2], rx[3]>>

\* the word pair of a frame
WordPair(rx) == <<256 * rx[1] + rx[2], 256 * rx[4] + rx[5]>>

SerialNumberRead ==
    /\ call.kind = "serial"
    /\ pc = "done"
    /\ ~TransmitFailed
    /\ ReceiveSucceeded
    /\ GroupMatches(data_rx, 0)
    /\ GroupMatches(data_rx, 3)

C22_SerialNumberOr ==
    SerialNumberRead =>
        /\ ret = ESP_OK
        /\ "serial_number" \in written
        /\ serial_number = 256 * BitOr(data_rx[1], data_rx[4], 8)
                               + BitOr(data_rx[2], data_rx[5], 8)
        /\ serial_number = BitOr(WordPair(data_rx)[1], WordPair(data_rx)[2], 16)
        /\ serial_number <= 65535
        /\ serial_number = serial_number_value(SwappedWords(data_rx))

\* the frame BE EF 92 12 34 37 has been read as 0xBEFF, and another frame
\* the sensor can send, with a different word pair, has the same identifier
C22_Witness ==
    /\ SerialNumberRead
    /\ data_rx = <<190, 239, 146, 18, 52, 55>>
    /\ serial_number = 48895
    /\ \E t \in Transfers :
          /\ GroupMatches(t.received, 0)
          /\ GroupMatches(t.received, 3)
          /\ WordPair(t.received) # WordPair(data_rx)
          /\ serial_number_value(t.received) = serial_number

(***************************************************************************)
(* C23: the handle is immutable after binding.  Once sht4x_init has run,   *)
(* no step of a measurement, a serial number read or a soft reset, whether *)
(* it succeeds or fails, changes the endpoint reference or the id field of *)
(* the handle; a successful serial number read does not store the          *)
(* identifier in it.                                                       *)
(***************************************************************************)
C23_HandleImmutable == [][pc # "unbound" => me' = me]_vars

\* a serial number read has succeeded on a bound handle whose id field is
\* not the identifier that was read
C23_Witness ==
    /\ SerialNumberRead
    /\ ret = ESP_OK
    /\ serial_number = 48895
    /\ me = sht4x_t(SHT40_I2C_ADDR_45, 21845)

(***************************************************************************)
(* C24: the functions do not serialize their callers.  With two callers    *)
(* on one endpoint and no lock, a receive is issued less than the settle   *)
(* time after the most recent command on the bus only when the other       *)
(* caller was in a function at the same time and that command was the      *)
(* other caller's, sent between this caller's send and its receive; a      *)
(* caller that had the endpoint to itself always receives a full settle    *)
(* time after its own command.  The witness is the reachable state of the  *)
(* first kind.                                                             *)
(***************************************************************************)
\* the caller's receive was issued before the settle time had passed since
\* the most recent command on the bus
EarlyReceive(t) ==
    /\ tasks[t].rx_since # -1
    /\ tasks[t].rx_since < tasks[t].call.period_us

C24_NoSerialization ==
    \A t \in DOMAIN tasks :
        /\ EarlyReceive(t) => ~tasks[t].alone /\ tasks[t].rx_by # t
        /\ (tasks[t].rx_since # -1 /\ tasks[t].alone) =>
              /\ tasks[t].rx_by = t
              /\ tasks[t].rx_since >= tasks[t].call.period_us

\* caller 1 measured with high precision, caller 2 sent its command after
\* caller 1's delay had ended, and caller 1 then received at once
C24_Witness ==
    /\ tasks # NoTasks
    /\ tasks[1].call = sht4x_measure_high_precision_ticks
    /\ tasks[1].pc = "done"
    /\ EarlyReceive(1)
    /\ tasks[1].rx_since = 0
    /\ tasks[1].rx_by = 2
    /\ bus.cmd = tasks[2].call.cmd
    /\ ~tasks[1].alone

(***************************************************************************)
(* C25: sht4x_init returns ESP_OK only when the device was added to the    *)
(* bus.  When i2c_master_bus_add_device fails, the caller receives a       *)
(* value other than ESP_OK; when sht4x_init returns ESP_OK, the handle     *)
(* holds an endpoint.                                                      *)
(***************************************************************************)
\* sht4x_init has returned
InitReturned == call.kind = "init" /\ pc = "done"

\* i2c_master_bus_add_device failed in this call
AddDeviceFailed == \E k \in EventsOf("add_device") : ~trace[k].ok

C25_InitReportsFailure ==
    InitReturned =>
        /\ AddDeviceFailed => ret # ESP_OK
        /\ ret = ESP_OK => me.i2c_dev # 0

(***************************************************************************)
(* C26: a stuck bus pattern is rejected.  When the receive reports success *)
(* and delivers the all-zero frame or the all-0xFF frame, the first        *)
(* checksum check fails (the checksum of 00 00 is not 00, that of FF FF is *)
(* not FF), the function returns ESP_FAIL and no output of the caller is   *)
(* written, for every function that reads data.                            *)
(***************************************************************************)
C26_StuckBusRejected ==
    (Returned /\ ReceiveSucceeded /\ data_rx \in StuckFrames) =>
        /\ ~GroupMatches(data_rx, 0)
        /\ \A k \in EventsOf("check_crc") : trace[k].val = 0 /\ ~trace[k].ok
        /\ Cardinality(EventsOf("check_crc")) = 1
        /\ Returns(ESP_FAIL)
        /\ written = {}
        /\ OutputsUntouched

\* a physical-unit measurement has received the all-0xFF frame and has
\* returned ESP_FAIL with the caller's values as they were
C26_Witness ==
    /\ call = sht4x_measure_high_precision
    /\ pc = "done"
    /\ ReceiveSucceeded
    /\ data_rx = <<255, 255, 255, 255, 255, 255>>
    /\ ret = ESP_FAIL
    /\ prior = 21845
    /\ temp = 21845
    /\ hum = 21845

\* the serial number read has received the all-zero frame and has returned
\* ESP_FAIL
C26_WitnessZero ==
    /\ call.kind = "serial"
    /\ pc = "done"
    /\ ReceiveSucceeded
    /\ data_rx = NoFrame
    /\ ret = ESP_FAIL
    /\ serial_number = prior

(***************************************************************************)
(* C27: the functions carry no state between calls.  Whatever calls came   *)
(* before and whatever they returned, the status, the outputs and the      *)
(* steps of a call are those of a first call of the same function with the *)
(* same outcomes of the bus and the same frame: the command is sent, the   *)
(* full period is waited and the frame is received, so a retry of a failed *)
(* command runs the whole cycle again.                                     *)
(***************************************************************************)
\* what a first call of f yields, given the outcomes of the bus, the frame
\* and what the caller's outputs held
FirstAttempt(f, write_ok, read_ok, rx, before) ==
    LET ok == MeasurementSucceeds(write_ok, read_ok, rx)
        sends == IF f.kind = "physical" THEN Counterpart(f) ELSE f
    IN  IF f.kind = "reset"
        THEN [status |-> IF write_ok THEN ESP_OK ELSE ESP_FAIL,
              steps |-> <<Step("transmit", f.cmd, 1, write_ok)>>
                        \o (IF write_ok
                            THEN <<Step("delay_us", f.period_us, 0, TRUE)>>
                            ELSE <<>>),
              outputs |-> <<>>]
        ELSE [status |-> IF ok THEN ESP_OK ELSE ESP_FAIL,
              steps |-> MeasurementSteps(sends.cmd, sends.period_us,
                                         write_ok, read_ok, rx),
              outputs |->
                  CASE f.kind = "ticks" ->
                          IF ok THEN <<256 * rx[1] + rx[2], 256 * rx[4] + rx[5]>>
                          ELSE <<before, before>>
                    [] f.kind = "physical" ->
                          IF ok
                          THEN <<convert_ticks_to_celsius(256 * rx[1] + rx[2]),
                                 convert_ticks_to_percent_rh(256 * rx[4] + rx[5])>>
                          ELSE <<before, before>>
                    [] OTHER ->
                          IF ok
                          THEN <<BitOr(256 * rx[1] + rx[2],
                                       256 * rx[4] + rx[5], 16)>>
                          ELSE <<before>>]

\* what the call that has returned yielded
Outcome ==
    [status |-> ret,
     steps |-> Steps,
     outputs |-> CASE call.kind = "ticks" -> <<temp_ticks, hum_ticks>>
                   [] call.kind = "physical" -> <<temp, hum>>
                   [] call.kind = "serial" -> <<serial_number>>
                   [] OTHER -> <<>>]

C27_NoCarriedState ==
    pc = "done" =>
        /\ Outcome = FirstAttempt(call, WriteOk, ReadOk, data_rx, prior)
        /\ \A k \in EventsOf("receive") : trace[k].at >= call.period_us
        /\ (call.kind = "reset" /\ WriteOk) => elapsed >= call.period_us

\* the serial number read failed at the receive, the caller called it
\* again, and the second call sent, waited, received and succeeded
C27_Witness ==
    /\ previous = [fn |-> "sht4x_get_serial_number", ret |-> ESP_FAIL]
    /\ call = sht4x_get_serial_number
    /\ pc = "done"
    /\ ret = ESP_OK
    /\ StepNames = <<"transmit", "delay_us", "receive", "check_crc 0-2",
                     "check_crc 3-5", "write outputs">>
    /\ \E k \in EventsOf("receive") : trace[k].at >= 10000

====
